---- MODULE Spec2Model ----
(***************************************************************************)
(* Model of the App component (src/src/App.tsx) and of RepositoryItem      *)
(* (src/src/RepositoryItem.tsx): one component instance, the single        *)
(* request its mount effect issues, the then/catch/finally reactions of    *)
(* the promise chain (one microtask each), React's re-renders and the      *)
(* teardown of the instance.                                               *)
(***************************************************************************)
EXTENDS Naturals, Sequences, FiniteSets

VARIABLES
    lifecycle,        \* "created" | "mounted" | "unmounted" | "crashed"
    effectPending,    \* the mount effect is scheduled and has not run yet
    isLoading,        \* useState(true)
    error,            \* useState("")
    topRepositories,  \* useState([])
    requests,         \* number of axios.get calls issued
    promise,          \* the promise axios.get returned
    signals,          \* completion signals the fetch capability has raised
    pc,               \* next reaction of the chain: idle/then/catch/finally/done
    chain,            \* settlement of the promise the last reaction produced
    dirty,            \* a state update has scheduled a re-render
    rendered,         \* what the last render returned
    history,          \* every render output, in order
    lateSetterCalls,  \* setter calls made while the instance is not mounted
    escaped           \* exceptions that left the component

vars == <<lifecycle, effectPending, isLoading, error, topRepositories, requests,
          promise, signals, pc, chain, dirty, rendered, history,
          lateSetterCalls, escaped>>

----------------------------------------------------------------------------
(* Bounds *)

MaxItems == 2
MaxSignals == 2

----------------------------------------------------------------------------
(* JavaScript values held by the state cells *)

Undefined == [type |-> "undefined", str |-> "", arr |-> <<>>]
Str(s) == [type |-> "string", str |-> s, arr |-> <<>>]
Arr(a) == [type |-> "array", str |-> "", arr |-> a]

\* JavaScript truthiness: "" and undefined are falsy, arrays are truthy.
Truthy(v) == \/ v.type = "array"
             \/ v.type = "string" /\ v.str # ""

----------------------------------------------------------------------------
(* Inputs: what the fetch capability can complete with *)

HtmlUrls == {"", "https://github.com/r"}
Homepages == {"", "https://github.com/r", "https://home.page"}

RepoId(u, h) == (IF u = "" THEN 0 ELSE 3)
                + (IF h = "" THEN 1 ELSE IF h = "https://github.com/r" THEN 2 ELSE 3)

Repos == { [id |-> RepoId(u, h), name |-> "repo", watchers |-> 10 * RepoId(u, h),
            html_url |-> u, homepage |-> h] : u \in HtmlUrls, h \in Homepages }

ItemSeqs == UNION { [1..n -> Repos] : n \in 0..MaxItems }

Messages == {"", "A terrible error ocurred :("}

NoResponse == [hasData |-> FALSE, items |-> Undefined]
NoReason == [isObject |-> FALSE, message |-> Undefined]

\* response.data present with items an array, present without items, or absent
Responses == { [hasData |-> TRUE, items |-> Arr(s)] : s \in ItemSeqs }
             \cup { [hasData |-> TRUE, items |-> Undefined], NoResponse }

\* an object with a message, an object without one, or null/undefined
Reasons == { [isObject |-> TRUE, message |-> Str(m)] : m \in Messages }
           \cup { [isObject |-> TRUE, message |-> Undefined], NoReason }

\* the TypeError a property read of undefined raises
TypeErr == [isObject |-> TRUE, message |-> Str("TypeError")]

Outcomes == { [state |-> "fulfilled", response |-> r, reason |-> NoReason] : r \in Responses }
            \cup { [state |-> "rejected", response |-> NoResponse, reason |-> e] : e \in Reasons }

NoPromise == [state |-> "none", response |-> NoResponse, reason |-> NoReason]
Pending == [state |-> "pending", response |-> NoResponse, reason |-> NoReason]

ChainFulfilled == [state |-> "fulfilled", reason |-> NoReason]
ChainRejected(e) == [state |-> "rejected", reason |-> e]
ChainPending == [state |-> "pending", reason |-> NoReason]

----------------------------------------------------------------------------
(* Rendering *)

\* Variant of RepositoryItem that drops the repositoryUrl guard.
RepositoryItemNoRepoGuard(name, watchCount, homepageUrl, repositoryUrl) ==
    [ name |-> name, watchCount |-> watchCount,
      repositoryLink |-> repositoryUrl,
      homepageUrl |-> homepageUrl,
      homepageLink |-> (homepageUrl # "" /\ homepageUrl # repositoryUrl) ]

\* RepositoryItem: the repository link always, the 'Home Page' link under the
\* condition homepageUrl && repositoryUrl && homepageUrl !== repositoryUrl.
RepositoryItem(name, watchCount, homepageUrl, repositoryUrl) ==
    [ name |-> name, watchCount |-> watchCount,
      repositoryLink |-> repositoryUrl,
      homepageUrl |-> homepageUrl,
      homepageLink |-> (homepageUrl # "" /\ repositoryUrl # ""
                        /\ homepageUrl # repositoryUrl) ]

\* Variant of RepositoryRows that lists the rows in reverse order.
RepositoryRowsReversed(items) ==
    [ i \in 1..Len(items) |->
        [ key |-> items[Len(items) + 1 - i].id,
          item |-> RepositoryItem(items[Len(items) + 1 - i].name,
                                  items[Len(items) + 1 - i].watchers,
                                  items[Len(items) + 1 - i].homepage,
                                  items[Len(items) + 1 - i].html_url) ] ]

\* topRepositories.map(repo => <RepositoryItem key=... />)
RepositoryRows(items) ==
    [ i \in 1..Len(items) |->
        [ key |-> items[i].id,
          item |-> RepositoryItem(items[i].name, items[i].watchers,
                                  items[i].homepage, items[i].html_url) ] ]

LoadingView == [view |-> "Loading", message |-> Undefined, rows |-> <<>>]
ErrorView(m) == [view |-> "Error", message |-> m, rows |-> <<>>]
ReadyView(rows) == [view |-> "Ready", message |-> Undefined, rows |-> rows]
ThrownView == [view |-> "Thrown", message |-> Undefined, rows |-> <<>>]
NoView == [view |-> "None", message |-> Undefined, rows |-> <<>>]

\* Variant of Project that tests the error cell before the loading flag.
ProjectErrorFirst(loading, err, repos) ==
    IF Truthy(err) THEN ErrorView(err)
    ELSE IF loading THEN LoadingView
    ELSE IF repos.type # "array" THEN ThrownView
    ELSE ReadyView(RepositoryRows(repos.arr))

\* The body of App after the hooks: the three return branches.  Calling .map
\* on a value that is not an array throws.
Project(loading, err, repos) ==
    IF loading THEN LoadingView
    ELSE IF Truthy(err) THEN ErrorView(err)
    ELSE IF repos.type # "array" THEN ThrownView
    ELSE ReadyView(RepositoryRows(repos.arr))

----------------------------------------------------------------------------
(* State after construction: the element exists, nothing has rendered. *)

InitNotLoading ==
    /\ lifecycle = "created"
    /\ effectPending = FALSE
    /\ isLoading = FALSE
    /\ error = Str("")
    /\ topRepositories = Arr(<<>>)
    /\ requests = 0
    /\ promise = NoPromise
    /\ signals = 0
    /\ pc = "idle"
    /\ chain = ChainPending
    /\ dirty = FALSE
    /\ rendered = NoView
    /\ history = <<>>
    /\ lateSetterCalls = 0
    /\ escaped = {}

Init ==
    /\ lifecycle = "created"
    /\ effectPending = FALSE
    /\ isLoading = TRUE
    /\ error = Str("")
    /\ topRepositories = Arr(<<>>)
    /\ requests = 0
    /\ promise = NoPromise
    /\ signals = 0
    /\ pc = "idle"
    /\ chain = ChainPending
    /\ dirty = FALSE
    /\ rendered = NoView
    /\ history = <<>>
    /\ lateSetterCalls = 0
    /\ escaped = {}

Live == lifecycle = "mounted"

----------------------------------------------------------------------------
(* Actions *)

\* First render of <App />: the hooks take their initial values, the body
\* returns its projection, and the mount effect is scheduled.
Mount ==
    /\ lifecycle = "created"
    /\ lifecycle' = "mounted"
    /\ effectPending' = TRUE
    /\ rendered' = Project(isLoading, error, topRepositories)
    /\ history' = Append(history, Project(isLoading, error, topRepositories))
    /\ UNCHANGED <<isLoading, error, topRepositories, requests, promise, signals,
                   pc, chain, dirty, lateSetterCalls, escaped>>

\* The useEffect callback: setIsLoading(true), then axios.get(...) with the
\* three reactions attached.
Effect ==
    /\ Live
    /\ effectPending
    /\ effectPending' = FALSE
    /\ isLoading' = TRUE
    /\ dirty' = (dirty \/ isLoading # TRUE)
    /\ requests' = requests + 1
    /\ promise' = Pending
    /\ pc' = "idle"
    /\ chain' = ChainPending
    /\ UNCHANGED <<lifecycle, error, topRepositories, signals, rendered, history,
                   lateSetterCalls, escaped>>

\* Variant of CanSettle: a settled promise accepts a further settlement.
CanSettleAgain(p) == p.state # "none"

\* A promise settles once: only a pending promise takes a completion.
CanSettle(p) == p.state = "pending"

\* The fetch capability raises a completion signal for the request.  The
\* first one settles the promise and queues the then-reaction.
Settle(o) ==
    /\ promise.state # "none"
    /\ signals < MaxSignals
    /\ signals' = signals + 1
    /\ IF CanSettle(promise)
       THEN /\ promise' = o
            /\ pc' = "then"
            /\ chain' = ChainPending
       ELSE UNCHANGED <<promise, pc, chain>>
    /\ UNCHANGED <<lifecycle, effectPending, isLoading, error, topRepositories,
                   requests, dirty, rendered, history, lateSetterCalls, escaped>>

\* .then((response) => { console.log(response.data.items);
\*                       setTopRepositories(response.data.items); })
\* A rejection of the request passes through to the next promise.
ThenStep ==
    /\ pc = "then"
    /\ pc' = "catch"
    /\ IF promise.state = "fulfilled" /\ promise.response.hasData
       THEN /\ chain' = ChainFulfilled
            /\ IF Live
               THEN /\ topRepositories' = promise.response.items
                    /\ dirty' = (dirty \/ topRepositories # promise.response.items)
                    /\ UNCHANGED lateSetterCalls
               ELSE /\ lateSetterCalls' = lateSetterCalls + 1
                    /\ UNCHANGED <<topRepositories, dirty>>
       ELSE /\ chain' = IF promise.state = "fulfilled"
                        THEN ChainRejected(TypeErr)
                        ELSE ChainRejected(promise.reason)
            /\ UNCHANGED <<topRepositories, dirty, lateSetterCalls>>
    /\ UNCHANGED <<lifecycle, effectPending, isLoading, error, requests, promise,
                   signals, rendered, history, escaped>>

\* .catch((err) => { setError(err.message); })
\* A fulfilment passes through; reading .message of null/undefined throws.
CatchStep ==
    /\ pc = "catch"
    /\ pc' = "finally"
    /\ IF chain.state = "rejected" /\ chain.reason.isObject
       THEN /\ chain' = ChainFulfilled
            /\ IF Live
               THEN /\ error' = chain.reason.message
                    /\ dirty' = (dirty \/ error # chain.reason.message)
                    /\ UNCHANGED lateSetterCalls
               ELSE /\ lateSetterCalls' = lateSetterCalls + 1
                    /\ UNCHANGED <<error, dirty>>
       ELSE /\ chain' = IF chain.state = "rejected"
                        THEN ChainRejected(TypeErr)
                        ELSE chain
            /\ UNCHANGED <<error, dirty, lateSetterCalls>>
    /\ UNCHANGED <<lifecycle, effectPending, isLoading, topRepositories, requests,
                   promise, signals, rendered, history, escaped>>

\* Variant of FinallyStep that clears the loading flag only after a success.
FinallyStepOnSuccessOnly ==
    /\ pc = "finally"
    /\ pc' = "done"
    /\ IF Live
       THEN /\ isLoading' = IF Truthy(error) THEN isLoading ELSE FALSE
            /\ dirty' = (dirty \/ isLoading' # isLoading)
            /\ UNCHANGED lateSetterCalls
       ELSE /\ lateSetterCalls' = lateSetterCalls + 1
            /\ UNCHANGED <<isLoading, dirty>>
    /\ escaped' = IF chain.state = "rejected"
                  THEN escaped \cup {"unhandledRejection"}
                  ELSE escaped
    /\ UNCHANGED <<lifecycle, effectPending, error, topRepositories, requests,
                   promise, signals, chain, rendered, history>>

\* .finally(() => { setIsLoading(false); })
\* The promise it returns keeps the settlement it was given; nothing handles
\* a rejection of it.
FinallyStep ==
    /\ pc = "finally"
    /\ pc' = "done"
    /\ IF Live
       THEN /\ isLoading' = FALSE
            /\ dirty' = (dirty \/ isLoading # FALSE)
            /\ UNCHANGED lateSetterCalls
       ELSE /\ lateSetterCalls' = lateSetterCalls + 1
            /\ UNCHANGED <<isLoading, dirty>>
    /\ escaped' = IF chain.state = "rejected"
                  THEN escaped \cup {"unhandledRejection"}
                  ELSE escaped
    /\ UNCHANGED <<lifecycle, effectPending, error, topRepositories, requests,
                   promise, signals, chain, rendered, history>>

\* Variant of EffectAfterRender for an effect without a dependency list.
EffectAfterEveryRender(pending) == TRUE

\* useEffect(..., []): a re-render does not schedule the effect again.
EffectAfterRender(pending) == pending

\* A re-render scheduled by a state update.  An exception thrown by the body
\* leaves the component and React removes the tree.
Render ==
    /\ Live
    /\ dirty
    /\ dirty' = FALSE
    /\ rendered' = Project(isLoading, error, topRepositories)
    /\ history' = Append(history, Project(isLoading, error, topRepositories))
    /\ effectPending' = EffectAfterRender(effectPending)
    /\ IF Project(isLoading, error, topRepositories).view = "Thrown"
       THEN /\ lifecycle' = "crashed"
            /\ escaped' = escaped \cup {"render"}
       ELSE UNCHANGED <<lifecycle, escaped>>
    /\ UNCHANGED <<isLoading, error, topRepositories, requests, promise, signals,
                   pc, chain, lateSetterCalls>>

\* Teardown of the instance.  The effect returns no cleanup function, so the
\* request and its reactions stay as they are.
Unmount ==
    /\ Live
    /\ ~effectPending
    /\ lifecycle' = "unmounted"
    /\ rendered' = NoView
    /\ dirty' = FALSE
    /\ UNCHANGED <<effectPending, isLoading, error, topRepositories, requests,
                   promise, signals, pc, chain, history, lateSetterCalls, escaped>>

Next ==
    \/ Mount
    \/ Effect
    \/ \E o \in Outcomes : Settle(o)
    \/ ThenStep
    \/ CatchStep
    \/ FinallyStep
    \/ Render
    \/ Unmount

Spec == Init /\ [][Next]_vars

\* The microtask queue runs every queued reaction, and React performs every
\* re-render it has scheduled.
FairSpec ==
    /\ Spec
    /\ WF_vars(ThenStep)
    /\ WF_vars(CatchStep)
    /\ WF_vars(FinallyStep)
    /\ WF_vars(Render)

----------------------------------------------------------------------------
(* Properties *)

Last(s) == s[Len(s)]

Settled == promise.state \in {"fulfilled", "rejected"}

\* The instance is still mounted, every reaction has run and React has
\* performed the re-render they scheduled.
Handled == Live /\ pc = "done" /\ ~dirty

\* C1: while the instance is mounted and its request has neither resolved nor
\* rejected (not yet issued, or pending), the rendered projection is Loading.
C1_LoadingWhileOutstanding ==
    (Live /\ promise.state \in {"none", "pending"}) => rendered = LoadingView

C1_Witness ==
    /\ Live
    /\ promise.state = "pending"
    /\ requests = 1
    /\ rendered = LoadingView

\* C2: once a rejection with failure message m has been fully handled, the
\* rendered projection is the error indicator carrying exactly m.
C2_ErrorCarriesMessage ==
    (Handled /\ promise.state = "rejected" /\ promise.reason.isObject
        /\ promise.reason.message.type = "string")
    => rendered = ErrorView(promise.reason.message)

\* C3: once a resolution with the sequence S has been fully handled, the
\* rendered projection is Ready with Len(S) rows, the i-th built from S[i].
C3_ReadyRowsInOrder ==
    (Handled /\ promise.state = "fulfilled" /\ promise.response.hasData
        /\ promise.response.items.type = "array")
    => LET S == promise.response.items.arr IN
       /\ rendered.view = "Ready"
       /\ Len(rendered.rows) = Len(S)
       /\ \A i \in 1..Len(S) :
            /\ rendered.rows[i].key = S[i].id
            /\ rendered.rows[i].item.name = S[i].name
            /\ rendered.rows[i].item.watchCount = S[i].watchers
            /\ rendered.rows[i].item.repositoryLink = S[i].html_url
            /\ rendered.rows[i].item.homepageUrl = S[i].homepage

C3_Witness ==
    /\ Handled
    /\ promise.state = "fulfilled"
    /\ promise.response.items.type = "array"
    /\ Len(promise.response.items.arr) = 2
    /\ promise.response.items.arr[1].id # promise.response.items.arr[2].id
    /\ rendered.view = "Ready"
    /\ Len(rendered.rows) = 2

\* C4 as stated: a rendered row holds the 'Home Page' link exactly when
\* homepageUrl is non-empty and differs from repositoryUrl.
C4_HomeLinkIffDistinctNonEmpty ==
    \A i \in 1..Len(rendered.rows) :
        LET r == rendered.rows[i].item IN
        r.homepageLink <=> (r.homepageUrl # "" /\ r.homepageUrl # r.repositoryLink)

\* C4 as amended: a rendered row holds the 'Home Page' link exactly when
\* homepageUrl is non-empty, repositoryUrl is non-empty and the two differ;
\* the link to repositoryUrl with name and watcher count is in every row.
C4_HomeLinkIffBothNonEmptyDistinct ==
    (Handled /\ rendered.view = "Ready") =>
    \A i \in 1..Len(rendered.rows) :
        LET r == rendered.rows[i].item
            s == topRepositories.arr[i] IN
        /\ r.homepageLink <=> (s.homepage # "" /\ s.html_url # ""
                               /\ s.homepage # s.html_url)
        /\ r.repositoryLink = s.html_url
        /\ r.name = s.name
        /\ r.watchCount = s.watchers

C4_Witness ==
    /\ Handled
    /\ rendered.view = "Ready"
    /\ Len(rendered.rows) = 2
    /\ rendered.rows[1].item.homepageLink
    /\ rendered.rows[2].item.repositoryLink = ""
    /\ rendered.rows[2].item.homepageUrl # ""
    /\ ~rendered.rows[2].item.homepageLink

\* C5: a mount issues exactly one request: none before the effect has run,
\* one once it has, and never a second one, whatever re-renders, state
\* updates or failures follow.
C5_ExactlyOneRequest ==
    /\ requests <= 1
    /\ (lifecycle # "created" /\ ~effectPending) => requests = 1
    /\ (lifecycle = "created" \/ effectPending) => requests = 0

C5_Witness ==
    /\ requests = 1
    /\ pc = "done"
    /\ promise.state = "rejected"
    /\ Len(history) >= 3
    /\ ~dirty

\* C6: once the first completion has been applied no step changes isLoading,
\* error or topRepositories, and a rendered Ready or Error projection of a
\* mounted instance is never replaced by another one.
C6_TerminalOnce ==
    [][ /\ (pc = "done" \/ ~isLoading)
            => UNCHANGED <<isLoading, error, topRepositories>>
        /\ (rendered.view \in {"Ready", "Error"} /\ lifecycle' = "mounted")
            => rendered' = rendered ]_vars

C6_Witness ==
    /\ Live
    /\ pc = "done"
    /\ signals = 2
    /\ ~isLoading
    /\ rendered.view \in {"Ready", "Error"}

\* C7: no state setter is invoked on an instance that has been torn down.
C7_NoSetterAfterTeardown == lateSetterCalls = 0

\* C8: every render before the last reaction has run projects Loading, so a
\* projection other than Loading is the last one rendered; it is Ready with
\* the fetched items after a resolution and Error with the message after a
\* rejection that carries a non-empty message.
C8_AtomicTransition ==
    /\ \A i \in 1..Len(history) :
          history[i].view # "Loading" => (i = Len(history) /\ pc = "done")
    /\ (Live /\ pc \in {"idle", "then", "catch", "finally"}) => rendered = LoadingView
    /\ (Handled /\ promise.state = "fulfilled" /\ promise.response.hasData
          /\ promise.response.items.type = "array")
       => Last(history) = ReadyView(RepositoryRows(promise.response.items.arr))
    /\ (Handled /\ promise.state = "rejected" /\ promise.reason.isObject
          /\ Truthy(promise.reason.message))
       => Last(history) = ErrorView(promise.reason.message)

C8_Witness ==
    /\ Handled
    /\ Len(history) = 3
    /\ history[2] = LoadingView
    /\ history[3].view = "Ready"
    /\ Len(history[3].rows) > 0

\* C9: no exception leaves the component, neither from a reaction of the
\* chain nor from a render.
C9_NothingEscapes == escaped = {}

C10_Exclusive ==
    /\ ~(Truthy(error) /\ topRepositories # Arr(<<>>))
    /\ (promise.state = "fulfilled" /\ promise.response.hasData)
       => /\ error = Str("")
          /\ (pc \in {"catch", "finally", "done"} /\ lifecycle # "unmounted")
                => topRepositories = promise.response.items
    /\ promise.state = "rejected"
       => /\ topRepositories = Arr(<<>>)
          /\ (pc \in {"finally", "done"} /\ Live /\ promise.reason.isObject)
                => error = promise.reason.message
    /\ (pc = "done" /\ lifecycle # "unmounted") => ~isLoading

\* C10: the error cell and the items cell are never both populated: a success
\* sets topRepositories and leaves error "", a failure sets error and leaves
\* topRepositories []; the chain ends with isLoading false, so a mounted
\* instance whose request has completed eventually leaves Loading.
C10_ExclusiveCellsAndLeavesLoading ==
    /\ []C10_Exclusive
    /\ (Live /\ Settled) ~> (~Live \/ ~isLoading)

C10_Witness ==
    /\ Live
    /\ pc = "done"
    /\ Truthy(error)
    /\ topRepositories = Arr(<<>>)
    /\ ~isLoading

====
